---- MODULE Spec2Model ----
(***************************************************************************)
(* Model of galax.dynamics' ODE orbit integrator                           *)
(* (src/galax/dynamics/_src/integrate/core.py): the batch vectorizer       *)
(* vectorize_diffeq, Integrator.__call__ in its three overloads and        *)
(* Interpolant.__call__.                                                   *)
(*                                                                         *)
(* Arrays are records [shape, data]: shape is the tuple of axis sizes and  *)
(* data the elements in row-major order.  Quantities are records           *)
(* [value, unit].  The adaptive solver (diffrax.diffeqsolve) is an         *)
(* external routine; it is represented by the exact flow of a vector field *)
(* with constant acceleration, which integer arithmetic computes exactly.  *)
(***************************************************************************)
EXTENDS Integers, Sequences, FiniteSets, TLC

VARIABLES
    integrator,   \* the Integrator instance: its fields (self)
    pc,           \* "idle" | "returned" | "evaluated"
    call,         \* the arguments of the call in progress, as the caller holds them
    result,       \* what the call returned or raised
    evaluated     \* what the last Interpolant evaluation returned

vars == <<integrator, pc, call, result, evaluated>>

(***************************************************************************)
(* Bounds of the model.                                                    *)
(***************************************************************************)
MaxN == 3      \* batch axes have sizes 1..MaxN
MaxT == 2      \* saveat and query-time vectors have lengths 1..MaxT

(***************************************************************************)
(* Arrays.                                                                 *)
(***************************************************************************)
RECURSIVE Prod(_)
Prod(s) == IF s = <<>> THEN 1 ELSE Head(s) * Prod(Tail(s))

Arr(shape, data) == [shape |-> shape, data |-> data]

Scalar(v) == Arr(<<>>, <<v>>)

Ndim(a) == Len(a.shape)

\* s[lo:hi) of a tuple, Python slice semantics for 0 <= lo (1-based result)
Slice(s, lo, hi) ==
    IF hi <= lo THEN <<>> ELSE SubSeq(s, lo + 1, hi)

Reverse(s) == [i \in 1..Len(s) |-> s[Len(s) + 1 - i]]

RECURSIVE Flatten(_)
Flatten(ss) == IF ss = <<>> THEN <<>> ELSE Head(ss) \o Flatten(Tail(ss))

\* xp.squeeze(a, axis=axes): the axes (1-based here) all have size 1
Squeeze(a, axes) ==
    LET keep == {i \in 1..Ndim(a) : i \notin axes}
        F[i \in 0..Ndim(a)] ==
            IF i = 0 THEN <<>>
            ELSE IF i \in keep THEN Append(F[i - 1], a.shape[i]) ELSE F[i - 1]
    IN  Arr(F[Ndim(a)], a.data)

\* a[None]
AddAxis0(a) == Arr(<<1>> \o a.shape, a.data)

\* mutant of Index0: every index reads the first element
Index0First(a, i) ==
    LET sz == Prod(Tail(a.shape))
    IN  Arr(Tail(a.shape), SubSeq(a.data, 1, sz))

\* a[i] along the leading axis (i from 1)
Index0(a, i) ==
    LET sz == Prod(Tail(a.shape))
    IN  Arr(Tail(a.shape), SubSeq(a.data, (i - 1) * sz + 1, i * sz))

\* a[(0,) * k]
RECURSIVE IndexZeros(_, _)
IndexZeros(a, k) == IF k = 0 THEN a ELSE IndexZeros(Index0(a, 1), k - 1)

\* the leaves stacked along a new leading axis (what jax.vmap does to outputs)
Stack(as) ==
    Arr(<<Len(as)>> \o as[1].shape, Flatten([i \in 1..Len(as) |-> as[i].data]))

\* a[..., lo:hi] (0-based, half open)
SliceLast(a, lo, hi) ==
    LET n    == Ndim(a)
        c    == a.shape[n]
        rows == Prod(SubSeq(a.shape, 1, n - 1))
    IN  Arr(SubSeq(a.shape, 1, n - 1) \o <<hi - lo>>,
            Flatten([r \in 1..rows |-> SubSeq(a.data, (r - 1) * c + lo + 1, (r - 1) * c + hi)]))

\* a[..., k] (0-based)
IndexLast(a, k) ==
    LET n == Ndim(a)
    IN  Arr(SubSeq(a.shape, 1, n - 1), SliceLast(a, k, k + 1).data)

\* mutant of LastOfSecondLast: the time axis is kept
KeepTimeAxis(a) == a

\* a[..., -1, :]
LastOfSecondLast(a) ==
    LET n    == Ndim(a)
        c    == a.shape[n]
        t    == a.shape[n - 1]
        pre  == SubSeq(a.shape, 1, n - 2)
        rows == Prod(pre)
    IN  Arr(pre \o <<c>>,
            Flatten([r \in 1..rows |->
                SubSeq(a.data, (r - 1) * t * c + (t - 1) * c + 1, r * t * c)]))

\* xp.concat((ts[..., None], ys), axis=-1)
ConcatTimeState(ts, ys) ==
    LET c    == ys.shape[Ndim(ys)]
        rows == Prod(ts.shape)
    IN  Arr(ts.shape \o <<c + 1>>,
            Flatten([r \in 1..rows |->
                <<ts.data[r]>> \o SubSeq(ys.data, (r - 1) * c + 1, r * c)]))

\* xp.asarray([x])
AsArray1(a) == Arr(<<1>> \o a.shape, a.data)

AtLeast1d(a) == IF Ndim(a) = 0 THEN Arr(<<1>>, a.data) ELSE a

AtLeast2d(a) ==
    IF Ndim(a) = 0 THEN Arr(<<1, 1>>, a.data)
    ELSE IF Ndim(a) = 1 THEN Arr(<<1>> \o a.shape, a.data)
    ELSE a

(***************************************************************************)
(* Units and quantities (unxt).  Factor gives a unit's size in the base    *)
(* unit of its dimension: Myr for time, pc for length, kpc/Gyr for speed.  *)
(***************************************************************************)
TimeUnits == {"Myr", "Gyr"}

Factor(u) ==
    CASE u = "Myr" -> 1
      [] u = "Gyr" -> 1000
      [] u = "pc" -> 1
      [] u = "kpc" -> 1000
      [] u = "kpc/Gyr" -> 1
      [] u = "kpc/Myr" -> 1000

Quantity(value, unit) == [value |-> value, unit |-> unit]

\* mutant of ConvertArr: the numbers are kept as they are
ConvertArrKeep(a, from, to) == a

\* the numbers of array a, given in unit from, expressed in unit to
ConvertArr(a, from, to) ==
    Arr(a.shape, [i \in 1..Len(a.data) |-> (a.data[i] * Factor(from)) \div Factor(to)])

\* mutant of QuantityConstructor: the unit is attached without converting
QuantityConstructorNoConvert(x, unit) == Quantity(x.value, unit)

\* Quantity.constructor(x, unit): a Quantity is converted to unit, a bare
\* array (unit "raw") is taken to be in unit already
QuantityConstructor(x, unit) ==
    IF x.unit = "raw" THEN Quantity(x.value, unit)
    ELSE Quantity(ConvertArr(x.value, x.unit, unit), unit)

\* ustrip(unit, x)
Ustrip(unit, x) == ConvertArr(x.value, x.unit, unit)

galactic == [time |-> "Myr", length |-> "kpc", speed |-> "kpc/Myr"]
gyrsystem == [time |-> "Gyr", length |-> "pc", speed |-> "kpc/Gyr"]
UnitSystems == {galactic, gyrsystem}

(***************************************************************************)
(* The external solver.  A vector field F(t, w) = (p, 2a) with constant a  *)
(* has the exact flow q = q0 + p0 dt + a dt^2, p = p0 + 2 a dt.            *)
(***************************************************************************)
VectorFields == {"free", "accel"}

Accel(F) == IF F = "free" THEN 0 ELSE 1

Flow(F, y0, t0, t) ==
    [j \in 1..6 |->
        IF j <= 3
        THEN y0[j] + y0[j + 3] * (t - t0) + Accel(F) * (t - t0) * (t - t0)
        ELSE y0[j] + 2 * Accel(F) * (t - t0)]

\* what the solver leaves in a save slot it never reaches (inf)
Unreached == 10 ^ 9

NoArr == Arr(<<0>>, <<>>)

ErrorSolution(err) ==
    [status |-> err, ts |-> NoArr, ys |-> NoArr, interpolation |-> NoArr, ncalls |-> 0]

\* diffrax.diffeqsolve for one trajectory: y0 of shape (6,), scalar t0 and
\* t1, ts of shape (T,), saveat=SaveAt(ts=ts, dense=interpolated).  The
\* dense interpolation is kept as the one array leaf (t0, y0) it is
\* evaluated from.  A save time outside [t0, t1] is never reached: its
\* slot of ts and of ys keeps the value the buffers were allocated with.
solve_diffeq(F, interpolated, y0, t0, t1, ts) ==
    LET a == t0.data[1]
        b == t1.data[1]
        T == ts.shape[1]
        At(t) == IF a <= t /\ t <= b THEN Flow(F, y0.data, a, t)
                 ELSE [j \in 1..6 |-> Unreached]
    IN  [status |-> "ok",
         ts |-> Arr(<<T>>, [k \in 1..T |->
                     IF a <= ts.data[k] /\ ts.data[k] <= b THEN ts.data[k]
                     ELSE Unreached]),
         ys |-> Arr(<<T, 6>>, Flatten([k \in 1..T |-> At(ts.data[k])])),
         interpolation |-> IF interpolated THEN Arr(<<7>>, <<a>> \o y0.data) ELSE NoArr,
         ncalls |-> 1]

\* DenseInterpolation.evaluate(t) on the leaf of one trajectory
EvaluateDense(F, leaf, t) == Flow(F, SubSeq(leaf.data, 2, 7), leaf.data[1], t)

(***************************************************************************)
(* vectorize_diffeq                                                        *)
(***************************************************************************)
\* the lengths of input_core_dims = [("6",), (), (), ("T",)]
CoreNdim == <<1, 0, 0, 1>>

NoncoreShape(a, k) == Slice(a.shape, 0, Ndim(a) - CoreNdim[k])

\* pad_ndim * (1,) + noncore_shape, with pad_ndim = 1 - len(noncore_shape)
FilledShape(nc) == IF 1 - Len(nc) > 0 THEN <<1>> \o nc ELSE nc

SqueezedArg(a, k) ==
    LET nc == NoncoreShape(a, k)
    IN  Squeeze(a, {i \in 1..Len(nc) : nc[i] = 1})

RevFilledShapes(args) ==
    [k \in 1..4 |-> Reverse(FilledShape(NoncoreShape(args[k], k)))]

\* zip(*rev_filled_shapes, strict=True) raises ValueError on unequal lengths
ZipStrictOk(rev) == \A k \in 1..4 : Len(rev[k]) = Len(rev[1])

\* in_axes of the layer of reversed axis i: TRUE is 0 (mapped), FALSE is None
InAxes(rev, i) == [k \in 1..4 |-> rev[k][i] # 1]

\* mutant of VmapLayers: each new layer is put inside the earlier ones, so
\* that the first batch axis ends up innermost
VmapLayersInnerFirst(rev) ==
    LET R == Len(rev[1])
        G[i \in 0..R] ==
            IF i = 0 THEN <<>>
            ELSE IF \E k \in 1..4 : InAxes(rev, i)[k]
                 THEN G[i - 1] \o <<InAxes(rev, i)>>
                 ELSE G[i - 1]
    IN  G[R]

\* the jax.vmap layers, outermost first: the loop wraps the function once
\* per axis, last batch axis first, skipping axes no argument is mapped on
VmapLayers(rev) ==
    LET R == Len(rev[1])
        G[i \in 0..R] ==
            IF i = 0 THEN <<>>
            ELSE IF \E k \in 1..4 : InAxes(rev, i)[k]
                 THEN <<InAxes(rev, i)>> \o G[i - 1]
                 ELSE G[i - 1]
    IN  G[R]

StackSolutions(subs) ==
    [status |-> "ok",
     ts |-> Stack([i \in 1..Len(subs) |-> subs[i].ts]),
     ys |-> Stack([i \in 1..Len(subs) |-> subs[i].ys]),
     interpolation |-> Stack([i \in 1..Len(subs) |-> subs[i].interpolation]),
     ncalls |-> LET S[i \in 0..Len(subs)] ==
                        IF i = 0 THEN 0 ELSE S[i - 1] + subs[i].ncalls
                IN  S[Len(subs)]]

\* mutant of SameAxisSize: mapped arguments of different sizes are accepted
\* and cut to the shortest
SameAxisSizeAny(sizes) == TRUE

\* jax.vmap's check that the mapped arguments agree on the size of the
\* mapped axis
SameAxisSize(sizes) == Cardinality(sizes) = 1

\* jax.vmap(f, in_axes)(*a), for the nest of layers: mapped arguments must
\* agree on the size of their leading axis, else ValueError
RECURSIVE ApplyVmap(_, _, _, _)
ApplyVmap(F, interpolated, layers, a) ==
    IF layers = <<>>
    THEN solve_diffeq(F, interpolated, a[1], a[2], a[3], a[4])
    ELSE LET ax     == Head(layers)
             mapped == {k \in 1..4 : ax[k]}
         IN  IF \E k \in mapped : Ndim(a[k]) = 0
             THEN ErrorSolution("ValueError")
             ELSE LET sizes == {a[k].shape[1] : k \in mapped}
                  IN  IF ~SameAxisSize(sizes)
                      THEN ErrorSolution("ValueError")
                      ELSE LET n    == CHOOSE m \in sizes : \A x \in sizes : m <= x
                               subs == [i \in 1..n |->
                                           ApplyVmap(F, interpolated, Tail(layers),
                                               [k \in 1..4 |->
                                                   IF ax[k] THEN Index0(a[k], i) ELSE a[k]])]
                           IN  IF \E i \in 1..n : subs[i].status # "ok"
                               THEN ErrorSolution("ValueError")
                               ELSE StackSolutions(subs)

\* the function vectorize_diffeq returns, applied to args = (w0, t0, t1, ts)
wrapped(F, interpolated, args) ==
    LET rev == RevFilledShapes(args)
    IN  IF ~ZipStrictOk(rev)
        THEN ErrorSolution("ValueError")
        ELSE ApplyVmap(F, interpolated, VmapLayers(rev),
                       [k \in 1..4 |-> SqueezedArg(args[k], k)])

(***************************************************************************)
(* Integrator                                                              *)
(***************************************************************************)
\* the values of saveat=None and of "no interpolant"
None == Quantity(NoArr, "None")

NoInterpolant ==
    [present |-> FALSE, interpolant |-> NoArr, units |-> galactic, added_ndim |-> 0,
     F |-> "None"]

\* dict.get(k): the value, or None
DictGet(d, k) == IF k \in DOMAIN d THEN d[k] ELSE "None"

\* dict.pop(k) on a dict holding k
DictPop(d, k) == [x \in (DOMAIN d) \ {k} |-> d[x]]

\* mutant of prepare_diffeq_kw: no copy is taken, the pop acts on
\* self.diffeq_kw itself
prepare_diffeq_kw_in_place(self, interpolated) ==
    LET diffeq_kw == self.diffeq_kw
    IN  IF interpolated /\ DictGet(diffeq_kw, "max_steps") = "None"
        THEN IF "max_steps" \in DOMAIN diffeq_kw
             THEN [status |-> "ok",
                   self |-> [self EXCEPT !.diffeq_kw = DictPop(diffeq_kw, "max_steps")],
                   kw |-> DictPop(diffeq_kw, "max_steps")]
             ELSE [status |-> "KeyError", self |-> self, kw |-> diffeq_kw]
        ELSE [status |-> "ok", self |-> self, kw |-> diffeq_kw]

\* diffeq_kw = dict(self.diffeq_kw)
\* if interpolated and diffeq_kw.get("max_steps") is None:
\*     diffeq_kw.pop("max_steps")
\* self: the integrator after these lines; kw: the local dict
prepare_diffeq_kw(self, interpolated) ==
    LET diffeq_kw == self.diffeq_kw
    IN  IF interpolated /\ DictGet(diffeq_kw, "max_steps") = "None"
        THEN IF "max_steps" \in DOMAIN diffeq_kw
             THEN [status |-> "ok", self |-> self, kw |-> DictPop(diffeq_kw, "max_steps")]
             ELSE [status |-> "KeyError", self |-> self, kw |-> diffeq_kw]
        ELSE [status |-> "ok", self |-> self, kw |-> diffeq_kw]

\* Integrator._process_interp
process_interp(F, sol, w0, units) ==
    LET batch      == Slice(w0.shape, 0, Ndim(w0) - 1)
        added_ndim == IF batch \in {<<>>, <<1>>} THEN 1 ELSE 0
        interp     == IF added_ndim = 1 THEN AddAxis0(sol.interpolation)
                      ELSE sol.interpolation
    IN  [present |-> TRUE, interpolant |-> interp, units |-> units,
         added_ndim |-> added_ndim, F |-> F]

\* a call that raised err
Raised(err, self, kw) ==
    [status |-> err, cls |-> "None", t |-> None, q |-> None, p |-> None,
     interpolant |-> NoInterpolant, self |-> self, diffeq_kw |-> kw, ncalls |-> 0]

\* gc.PhaseSpacePosition(t=, q=, p=) and gc.InterpolatedPhaseSpacePosition(
\* t=, q=, p=, interpolant=): containers of the fields they are given
PhaseSpacePosition(cls, t, q, p, interpolant) ==
    [cls |-> cls, t |-> t, q |-> q, p |-> p, interpolant |-> interpolant]

\* w = xp.concat(...); w = w[None] if w0.shape[0] == 1 else w;
\* w = w[..., -1, :] if saveat is None else w
\* mutant of AddBatchAxis: a w0 without batch axes gets the axis too
AddBatchAxisScalar(w, w0) ==
    IF w0.shape[1] = 1 \/ Ndim(w0) = 1 THEN AddAxis0(w) ELSE w

AddBatchAxis(w, w0) == IF w0.shape[1] = 1 THEN AddAxis0(w) ELSE w

DropTimeAxis(w, saveat) == IF saveat = None THEN LastOfSecondLast(w) ELSE w

ParseSolution(solution, w0, saveat) ==
    DropTimeAxis(AddBatchAxis(ConcatTimeState(solution.ts, solution.ys), w0), saveat)

\* the return statement: out_cls(t=w[..., 0], q=w[..., 1:4], p=w[..., 4:7], **out_kw)
\* diffeq_kw records the keyword arguments diffeqsolve was given, ncalls
\* the number of trajectories it solved
ReturnValue(out, prep, solution) ==
    [status |-> "ok", cls |-> out.cls, t |-> out.t, q |-> out.q, p |-> out.p,
     interpolant |-> out.interpolant, self |-> prep.self, diffeq_kw |-> prep.kw,
     ncalls |-> solution.ncalls]

\* mutant of Output: a plain PhaseSpacePosition whatever interpolated is
OutputPlain(w, interpolant, units, interpolated) ==
    PhaseSpacePosition(
        "PhaseSpacePosition",
        Quantity(IndexLast(w, 0), units.time),
        Quantity(SliceLast(w, 1, 4), units.length),
        Quantity(SliceLast(w, 4, 7), units.speed),
        NoInterpolant)

\* the "Return" block: out_cls and out_kw chosen by interpolated
Output(w, interpolant, units, interpolated) ==
    PhaseSpacePosition(
        IF interpolated THEN "InterpolatedPhaseSpacePosition" ELSE "PhaseSpacePosition",
        Quantity(IndexLast(w, 0), units.time),
        Quantity(SliceLast(w, 1, 4), units.length),
        Quantity(SliceLast(w, 4, 7), units.speed),
        interpolant)

\* Integrator.__call__ from "Parse the solution" on
IntegratorSolved(prep, solution, F, w0, saveat, units, interpolated) ==
    IF solution.status # "ok" THEN Raised(solution.status, prep.self, prep.kw)
    ELSE ReturnValue(
             Output(ParseSolution(solution, w0, saveat),
                    IF interpolated THEN process_interp(F, solution, w0, units)
                    ELSE NoInterpolant,
                    units, interpolated),
             prep, solution)

\* Integrator.__call__ from "Perform the integration" on
IntegratorPrepared(prep, F, w0, t0_, t1_, ts, saveat, units, interpolated) ==
    IF prep.status # "ok" THEN Raised(prep.status, prep.self, prep.kw)
    ELSE IntegratorSolved(
             prep,
             wrapped(F, interpolated, <<w0, t0_.value, t1_.value, AtLeast2d(ts.value)>>),
             F, w0, saveat, units, interpolated)

\* ts = Quantity.constructor(xp.asarray([t1_]) if saveat is None else saveat, time)
SaveTimes(t1_, saveat, time) ==
    QuantityConstructor(
        IF saveat = None THEN Quantity(AsArray1(t1_.value), t1_.unit) ELSE saveat, time)

IntegratorParsed(self, F, w0, t0_, t1_, saveat, units, interpolated) ==
    IntegratorPrepared(prepare_diffeq_kw(self, interpolated), F, w0, t0_, t1_,
                       SaveTimes(t1_, saveat, units.time), saveat, units, interpolated)

\* Integrator.__call__(self, F, w0: BatchVec6, t0, t1, saveat, units=, interpolated=)
IntegratorCall(self, F, w0, t0, t1, saveat, units, interpolated) ==
    IntegratorParsed(self, F, w0, QuantityConstructor(t0, units.time),
                     QuantityConstructor(t1, units.time), saveat, units, interpolated)

(***************************************************************************)
(* The callers' inputs.                                                    *)
(***************************************************************************)
Sizes == 1..MaxN

BatchShapes ==
    {<<>>} \cup {<<n>> : n \in Sizes} \cup {<<n, m>> : n \in Sizes, m \in Sizes}

TimeShapes == {<<>>} \cup {<<n>> : n \in Sizes}

\* t0 and t1 are both scalar, or one is a vector, or both are vectors of one length
TimeShapePairs ==
    {sp \in TimeShapes \X TimeShapes : sp[1] = <<>> \/ sp[2] = <<>> \/ sp[1] = sp[2]}

\* a raw w0 of batch shape B in the unit system: all elements differ
W0Array(B) == Arr(B \o <<6>>, [i \in 1..(Prod(B) * 6) |-> i])

\* the time of k Gyr as a number in unit u ("raw": in the system's time unit)
TimeValue(k, u, units) ==
    (k * 1000) \div Factor(IF u = "raw" THEN units.time ELSE u)

\* t0: 0, -1, -2, ... Gyr; t1: MaxT, MaxT + 1, ... Gyr; saveat: the T
\* successive Gyr ending at MaxT Gyr
T0Quantity(shape, u, units) ==
    Quantity(Arr(shape, [i \in 1..Prod(shape) |-> TimeValue(1 - i, u, units)]), u)

T1Quantity(shape, u, units) ==
    Quantity(Arr(shape, [i \in 1..Prod(shape) |-> TimeValue(MaxT + i - 1, u, units)]), u)

SaveatQuantity(T, u, units) ==
    Quantity(Arr(<<T>>, [k \in 1..T |-> TimeValue(MaxT - T + k, u, units)]), u)

\* <<unit system, unit of t0 and t1, unit of saveat>>
UnitCases ==
    {<<galactic, "Gyr", "Gyr">>, <<galactic, "raw", "Myr">>, <<gyrsystem, "Myr", "raw">>}

\* Integrator(): the default fields, with diffeq_kw as given
MakeIntegrator(diffeq_kw) ==
    [Solver |-> "Dopri8", stepsize_controller |-> "PIDController(1e-7, 1e-7)",
     diffeq_kw |-> diffeq_kw, solver_kw |-> [scan_kind |-> "bounded"]]

DefaultDiffeqKw == [k \in {"max_steps", "event"} |-> "None"]

DiffeqKws ==
    {DefaultDiffeqKw,
     [k \in {"max_steps", "event"} |-> IF k = "max_steps" THEN "16" ELSE "None"],
     [k \in {"event"} |-> "None"]}

NoCall == [kind |-> "none"]
NoResult == Raised("none", MakeIntegrator(DefaultDiffeqKw), DefaultDiffeqKw)
NoEvaluation == [status |-> "none"]

(***************************************************************************)
(* Calls of the Integrator on a raw w0.                                    *)
(***************************************************************************)
Init ==
    /\ integrator \in {MakeIntegrator(kw) : kw \in DiffeqKws}
    /\ pc = "idle"
    /\ call = NoCall
    /\ result = NoResult
    /\ evaluated = NoEvaluation

RawCall(F, B, sp, uc, T, interpolated) ==
    LET units  == uc[1]
        w0     == W0Array(B)
        t0     == T0Quantity(sp[1], uc[2], units)
        t1     == T1Quantity(sp[2], uc[2], units)
        saveat == IF T = 0 THEN None ELSE SaveatQuantity(T, uc[3], units)
    IN  /\ pc = "idle"
        /\ call' = [kind |-> "raw", F |-> F, w0 |-> w0, t0 |-> t0, t1 |-> t1,
                    saveat |-> saveat, units |-> units, interpolated |-> interpolated]
        /\ result' = IntegratorCall(integrator, F, w0, t0, t1, saveat, units,
                                    interpolated)
        /\ integrator' = result'.self
        /\ pc' = "returned"
        /\ UNCHANGED evaluated

\* every unit case with scalar t0 and t1, one unit case with batched ones
Call ==
    \E F \in VectorFields, B \in BatchShapes, sp \in TimeShapePairs, uc \in UnitCases,
       T \in 0..MaxT, interpolated \in BOOLEAN :
        /\ sp = <<(<<>>), (<<>>)>> \/ uc = <<galactic, "Gyr", "Gyr">>
        /\ RawCall(F, B, sp, uc, T, interpolated)

\* the caller is done with the result and may call again
Return ==
    /\ pc \in {"returned", "evaluated"}
    /\ pc' = "idle"
    /\ call' = NoCall
    /\ result' = NoResult
    /\ evaluated' = NoEvaluation
    /\ UNCHANGED integrator

Next == Call \/ Return

Spec == Init /\ [][Next]_vars

(***************************************************************************)
(* Structured and composite initial conditions.                            *)
(***************************************************************************)
\* AbstractPhaseSpacePosition.w(units=units): q and p converted to the
\* system's length and speed units and joined into (*batch, 6)
PSP_w(w0, units) ==
    LET q    == Ustrip(units.length, w0.q)
        p    == Ustrip(units.speed, w0.p)
        rows == Prod(Slice(q.shape, 0, Ndim(q) - 1))
    IN  Arr(Slice(q.shape, 0, Ndim(q) - 1) \o <<6>>,
            Flatten([r \in 1..rows |->
                SubSeq(q.data, 3 * r - 2, 3 * r) \o SubSeq(p.data, 3 * r - 2, 3 * r)]))

\* mutant of IntegratorCallPSP: a w0 that carries a time starts from it
IntegratorCallPSPFromOwnTime(self, F, w0, t0, t1, saveat, units, interpolated) ==
    IntegratorCall(self, F, PSP_w(w0, units), IF w0.t = None THEN t0 ELSE w0.t, t1,
                   saveat, units, interpolated)

\* Integrator.__call__(self, F, w0: AbstractPhaseSpacePosition, ...)
IntegratorCallPSP(self, F, w0, t0, t1, saveat, units, interpolated) ==
    IntegratorCall(self, F, PSP_w(w0, units), t0, t1, saveat, units, interpolated)

\* mutant of CompositeItems: the entries are integrated without interpolation
RECURSIVE CompositeItemsNotInterpolated(_, _, _, _, _, _, _, _, _)
CompositeItemsNotInterpolated(self, F, items, t0, t1, saveat, units, interpolated, done) ==
    IF items = <<>>
    THEN [status |-> "ok", items |-> done, self |-> self]
    ELSE LET r == IntegratorCallPSP(self, F, Head(items).value, t0, t1, saveat, units,
                                    FALSE)
         IN  IF r.status # "ok"
             THEN [status |-> r.status, items |-> <<>>, self |-> r.self]
             ELSE CompositeItemsNotInterpolated(r.self, F, Tail(items), t0, t1, saveat,
                                                units, interpolated,
                                                Append(done, [key |-> Head(items).key,
                                                              value |-> r]))

\* mutant of CompositeItems: an entry that raises is left out
RECURSIVE CompositeItemsSkipFailed(_, _, _, _, _, _, _, _, _)
CompositeItemsSkipFailed(self, F, items, t0, t1, saveat, units, interpolated, done) ==
    IF items = <<>>
    THEN [status |-> "ok", items |-> done, self |-> self]
    ELSE LET r == IntegratorCallPSP(self, F, Head(items).value, t0, t1, saveat, units,
                                    interpolated)
         IN  CompositeItemsSkipFailed(r.self, F, Tail(items), t0, t1, saveat, units,
                                      interpolated,
                                      IF r.status # "ok" THEN done
                                      ELSE Append(done, [key |-> Head(items).key,
                                                         value |-> r]))

\* the dict comprehension {k: self(F, v, ...) for k, v in w0.items()}: the
\* entries in order, done holds those already integrated; an entry that
\* raises ends it
RECURSIVE CompositeItems(_, _, _, _, _, _, _, _, _)
CompositeItems(self, F, items, t0, t1, saveat, units, interpolated, done) ==
    IF items = <<>>
    THEN [status |-> "ok", items |-> done, self |-> self]
    ELSE LET r == IntegratorCallPSP(self, F, Head(items).value, t0, t1, saveat, units,
                                    interpolated)
         IN  IF r.status # "ok"
             THEN [status |-> r.status, items |-> <<>>, self |-> r.self]
             ELSE CompositeItems(r.self, F, Tail(items), t0, t1, saveat, units,
                                 interpolated,
                                 Append(done, [key |-> Head(items).key, value |-> r]))

\* gc.CompositePhaseSpacePosition(**entries): the entries under their keys,
\* in the order given
CompositePhaseSpacePosition(entries) == entries

\* Integrator.__call__(self, F, w0: AbstractCompositePhaseSpacePosition, ...)
IntegratorCallComposite(self, F, w0, t0, t1, saveat, units, interpolated) ==
    LET r == CompositeItems(self, F, w0, t0, t1, saveat, units, interpolated, <<>>)
    IN  [status |-> r.status, items |-> CompositePhaseSpacePosition(r.items),
         self |-> r.self]

\* a structured w0 of batch shape B with q in unit lu and p in unit su:
\* element i is (i + offset) kpc, resp. (i + offset) kpc/Myr
PSPInput(B, lu, su, offset) ==
    LET n == Prod(B) * 3
    IN  [q |-> Quantity(Arr(B \o <<3>>,
                   [i \in 1..n |-> ((i + offset) * Factor("kpc")) \div Factor(lu)]), lu),
         p |-> Quantity(Arr(B \o <<3>>,
                   [i \in 1..n |-> ((n + i + offset) * Factor("kpc/Myr")) \div Factor(su)]),
                   su),
         t |-> None]

CompositeShapes == {<<>>, <<1>>, <<MaxN>>, <<MaxN, MaxN>>}

KeyOrders == {<<"w01", "w02">>, <<"w02", "w01">>}

\* <<unit system, unit of q, unit of p>>
PSPUnitCases ==
    {<<galactic, "kpc", "kpc/Myr">>, <<galactic, "pc", "kpc/Gyr">>,
     <<gyrsystem, "kpc", "kpc/Myr">>}

\* the t attribute of a structured w0: absent, or a time of its own
PSPTimes == {None, Quantity(Scalar(1), "Gyr")}

StructuredCall ==
    \E F \in VectorFields, B \in CompositeShapes, uc \in PSPUnitCases, T \in 0..MaxT,
       interpolated \in BOOLEAN, wt \in PSPTimes :
        LET units  == uc[1]
            w0     == [PSPInput(B, uc[2], uc[3], 0) EXCEPT !.t = wt]
            t0     == T0Quantity(<<>>, "Gyr", units)
            t1     == T1Quantity(<<>>, "Gyr", units)
            saveat == IF T = 0 THEN None ELSE SaveatQuantity(T, "Gyr", units)
            r      == IntegratorCallPSP(integrator, F, w0, t0, t1, saveat, units,
                                        interpolated)
        IN  /\ pc = "idle"
            /\ call' = [kind |-> "psp", F |-> F, w0 |-> w0, t0 |-> t0, t1 |-> t1,
                        saveat |-> saveat, units |-> units, interpolated |-> interpolated]
            /\ result' = r
            /\ integrator' = r.self
            /\ pc' = "returned"
            /\ UNCHANGED evaluated

CompositeCall ==
    \E F \in VectorFields, B1 \in CompositeShapes, B2 \in CompositeShapes,
       keys \in KeyOrders, uc \in PSPUnitCases, T \in 0..MaxT, interpolated \in BOOLEAN :
        LET units  == uc[1]
            w0     == <<[key |-> keys[1], value |-> PSPInput(B1, uc[2], uc[3], 0)],
                        [key |-> keys[2], value |-> PSPInput(B2, uc[2], uc[3], 100)]>>
            t0     == T0Quantity(<<>>, "Gyr", units)
            t1     == T1Quantity(<<>>, "Gyr", units)
            saveat == IF T = 0 THEN None ELSE SaveatQuantity(T, "Gyr", units)
            r      == IntegratorCallComposite(integrator, F, w0, t0, t1, saveat, units,
                                              interpolated)
        IN  /\ pc = "idle"
            /\ call' = [kind |-> "composite", F |-> F, w0 |-> w0, t0 |-> t0, t1 |-> t1,
                        saveat |-> saveat, units |-> units, interpolated |-> interpolated]
            /\ result' = r
            /\ integrator' = r.self
            /\ pc' = "returned"
            /\ UNCHANGED evaluated

NextComposite == StructuredCall \/ CompositeCall \/ Return

SpecComposite == Init /\ [][NextComposite]_vars

\* calls on a raw and on a structured w0
NextCalls == Call \/ StructuredCall \/ Return

SpecCalls == Init /\ [][NextCalls]_vars

(***************************************************************************)
(* Interpolant                                                             *)
(***************************************************************************)
\* jax.vmap(lambda s: jax.vmap(s.evaluate)(t_))(self.interpolant): the
\* outer map runs over the leading axis of the interpolant's leaf, the
\* inner one over the leading axis of t_
EvaluateAll(self, t_) ==
    LET leaf == self.interpolant
    IN  Stack([i \in 1..leaf.shape[1] |->
            Stack([k \in 1..t_.shape[1] |->
                Arr(<<6>>, EvaluateDense(self.F, Index0(leaf, i), Index0(t_, k).data[1]))])])

\* mutant of InterpolantCall: the result's t is the stripped, at least 1-d
\* time t_ in the unit system's time unit
InterpolantCallStrippedTime(self, t) ==
    LET t_         == AtLeast1d(Ustrip(self.units.time, t))
        ys         == EvaluateAll(self, t_)
        extra_dims == Ndim(ys) - 3 + self.added_ndim + (Ndim(t_) - Ndim(t.value))
        ys2        == IndexZeros(ys, extra_dims)
        out        == PhaseSpacePosition("PhaseSpacePosition",
                          Quantity(t_, self.units.time),
                          Quantity(SliceLast(ys2, 0, 3), self.units.length),
                          Quantity(SliceLast(ys2, 3, 6), self.units.speed),
                          NoInterpolant)
    IN  [status |-> "ok", cls |-> out.cls, q |-> out.q, p |-> out.p, t |-> out.t,
         self |-> self]

\* mutant of InterpolantCall: the squeeze is booked on the Interpolant, whose
\* added_ndim is used up by the call
InterpolantCallUsesUpAddedNdim(self, t) ==
    LET t_         == AtLeast1d(Ustrip(self.units.time, t))
        ys         == EvaluateAll(self, t_)
        extra_dims == Ndim(ys) - 3 + self.added_ndim + (Ndim(t_) - Ndim(t.value))
        ys2        == IndexZeros(ys, extra_dims)
        out        == PhaseSpacePosition("PhaseSpacePosition", t,
                          Quantity(SliceLast(ys2, 0, 3), self.units.length),
                          Quantity(SliceLast(ys2, 3, 6), self.units.speed),
                          NoInterpolant)
    IN  [status |-> "ok", cls |-> out.cls, q |-> out.q, p |-> out.p, t |-> out.t,
         self |-> [self EXCEPT !.added_ndim = 0]]

\* Interpolant.__call__(self, t); self: the Interpolant after the call
InterpolantCall(self, t) ==
    LET t_         == AtLeast1d(Ustrip(self.units.time, t))
        ys         == EvaluateAll(self, t_)
        extra_dims == Ndim(ys) - 3 + self.added_ndim + (Ndim(t_) - Ndim(t.value))
        ys2        == IndexZeros(ys, extra_dims)
        out        == PhaseSpacePosition("PhaseSpacePosition", t,
                          Quantity(SliceLast(ys2, 0, 3), self.units.length),
                          Quantity(SliceLast(ys2, 3, 6), self.units.speed),
                          NoInterpolant)
    IN  [status |-> "ok", cls |-> out.cls, q |-> out.q, p |-> out.p, t |-> out.t,
         self |-> self]

\* query times: MaxT Gyr as a scalar, or the K successive Gyr ending there
QueryQuantity(K, u, units) ==
    IF K = 0 THEN Quantity(Scalar(TimeValue(MaxT, u, units)), u)
    ELSE SaveatQuantity(K, u, units)

\* an interpolated integration with scalar t0 and t1
InterpolatedCall ==
    \E F \in VectorFields, B \in BatchShapes, uc \in UnitCases, T \in 0..MaxT :
        RawCall(F, B, <<(<<>>), (<<>>)>>, uc, T, TRUE)

\* the caller evaluates the interpolant of the result at hand
Evaluate ==
    \E K \in 0..MaxT, u \in TimeUnits :
        /\ pc \in {"returned", "evaluated"}
        /\ result.status = "ok"
        /\ result.interpolant.present
        /\ Ndim(result.interpolant.interpolant) = 2
        /\ evaluated' = [t_in |-> QueryQuantity(K, u, call.units)] @@
                        InterpolantCall(result.interpolant,
                                        QueryQuantity(K, u, call.units))
        /\ result' = [result EXCEPT !.interpolant = evaluated'.self]
        /\ pc' = "evaluated"
        /\ UNCHANGED <<integrator, call>>

NextInterp == InterpolatedCall \/ Evaluate \/ Return

SpecInterp == Init /\ [][NextInterp]_vars

(***************************************************************************)
(* Direct calls of the function vectorize_diffeq returns.                  *)
(***************************************************************************)
\* an array of batch shape B whose rows are the core vector row
Tile(B, row) ==
    Arr(B \o <<Len(row)>>, Flatten([r \in 1..Prod(B) |-> row]))

TsBatchShapes == {<<>>, <<1>>, <<MaxN>>, <<1, 1>>}

VectorizedCall ==
    \E Bw \in BatchShapes, B0 \in BatchShapes, same \in BOOLEAN, Bs \in TsBatchShapes,
       T \in 1..MaxT :
        LET w0 == W0Array(Bw)
            t0 == T0Quantity(B0, "raw", galactic).value
            t1 == T1Quantity(IF same THEN B0 ELSE <<>>, "raw", galactic).value
            ts == Tile(Bs, SaveatQuantity(T, "raw", galactic).value.data)
        IN  /\ pc = "idle"
            /\ call' = [kind |-> "vectorized", F |-> "accel", w0 |-> w0, t0 |-> t0,
                        t1 |-> t1, ts |-> ts]
            /\ result' = wrapped("accel", FALSE, <<w0, t0, t1, ts>>)
            /\ pc' = "returned"
            /\ UNCHANGED <<integrator, evaluated>>

NextVectorized == VectorizedCall \/ Return

InitVectorized == Init /\ integrator = MakeIntegrator(DefaultDiffeqKw)

SpecVectorized == InitVectorized /\ [][NextVectorized]_vars

(***************************************************************************)
(* Derived quantities (funcs.py).  Positions and velocities are Quantities *)
(* of shape (..., 3), or Cartesian vector objects holding the three        *)
(* components as separate arrays of shape batch.                           *)
(***************************************************************************)
\* the batch shape of a (..., 3) array
VecBatch(a) == Slice(a.shape, 0, Ndim(a) - 1)

\* row r (from 1) of the last axis of a (*batch, 3) array; a (3,) array is
\* broadcast
Vec3Row(a, r) == IF Ndim(a) = 1 THEN a.data ELSE SubSeq(a.data, 3 * r - 2, 3 * r)

\* the unit of a product of quantities
UnitProduct(a, b) == <<a, "*", b>>

\* jnp.linalg.cross(x, v) over the last axis: component i is
\* x[i+1] v[i+2] - x[i+2] v[i+1], indices taken cyclically
Cross(x, v) ==
    LET B    == IF Ndim(x.value) >= Ndim(v.value) THEN VecBatch(x.value)
                ELSE VecBatch(v.value)
        nxt  == [i \in 1..3 |-> (i % 3) + 1]
        c(r) == [i \in 1..3 |->
                    Vec3Row(x.value, r)[nxt[i]] * Vec3Row(v.value, r)[nxt[nxt[i]]]
                        - Vec3Row(x.value, r)[nxt[nxt[i]]] * Vec3Row(v.value, r)[nxt[i]]]
    IN  Quantity(Arr(B \o <<3>>, Flatten([r \in 1..Prod(B) |-> c(r)])),
                 UnitProduct(x.unit, v.unit))

\* mutant of specific_angular_momentum: the arguments are crossed the other
\* way round
specific_angular_momentum_reversed(x, v) == Cross(v, x)

\* specific_angular_momentum(x: LengthBtSz3, v: SpeedBtSz3)
specific_angular_momentum(x, v) == Cross(x, v)

\* cx.CartesianPos3D.from_(q) and cx.CartesianVel3D.from_(q): the three
\* components of a (*batch, 3) Quantity as separate arrays
CartesianFrom(q) ==
    LET B == VecBatch(q.value)
    IN  [x |-> Arr(B, [r \in 1..Prod(B) |-> Vec3Row(q.value, r)[1]]),
         y |-> Arr(B, [r \in 1..Prod(B) |-> Vec3Row(q.value, r)[2]]),
         z |-> Arr(B, [r \in 1..Prod(B) |-> Vec3Row(q.value, r)[3]]),
         unit |-> q.unit]

\* convert(x.vconvert(cx.CartesianPos3D), u.Quantity) for a Cartesian x: the
\* components stacked along a new last axis
ConvertToQuantity(vec) ==
    Quantity(Arr(vec.x.shape \o <<3>>,
                 Flatten([r \in 1..Prod(vec.x.shape) |->
                     <<vec.x.data[r], vec.y.data[r], vec.z.data[r]>>])),
             vec.unit)

\* specific_angular_momentum(x: AbstractPos3D, v: AbstractVel3D)
specific_angular_momentum_vecs(x, v) ==
    specific_angular_momentum(ConvertToQuantity(x), ConvertToQuantity(v))

\* specific_angular_momentum(w: cx.Space)
specific_angular_momentum_space(w) ==
    specific_angular_momentum_vecs(w.length, w.speed)

\* specific_angular_momentum(w: gc.AbstractPhaseSpacePosition)
specific_angular_momentum_psp(w) == specific_angular_momentum(w.q, w.p)

\* the values of the components of the callers' positions and velocities
ComponentValues == {0, 1, 8}

Vec3s == [1..3 -> ComponentValues]

\* the components of a moved k places round
Rotated(a, k) == [i \in 1..3 |-> a[((i + k - 1) % 3) + 1]]

\* a (*B, 3) Quantity whose rows are a, a moved by step, by 2 step, ...
Vec3Quantity(B, a, step, unit) ==
    Quantity(Arr(B \o <<3>>,
                 Flatten([r \in 1..Prod(B) |-> Rotated(a, (r - 1) * step)])), unit)

FuncBatchShapes == {<<>>, <<MaxN>>, <<1, 2>>}

Overloads == {"quantity", "vectors", "space", "psp"}

AngularMomentumCall ==
    /\ pc = "idle"
    /\ \E a \in Vec3s, b \in Vec3s, B \in FuncBatchShapes, overload \in Overloads :
           LET x == Vec3Quantity(B, a, 1, "m")
               v == Vec3Quantity(B, b, 2, "m/s")
           IN  /\ call' = [kind |-> "specific_angular_momentum", overload |-> overload,
                           x |-> x, v |-> v]
               /\ result' =
                      [status |-> "ok",
                       L |-> CASE overload = "quantity" ->
                                    specific_angular_momentum(x, v)
                               [] overload = "vectors" ->
                                    specific_angular_momentum_vecs(CartesianFrom(x),
                                                                   CartesianFrom(v))
                               [] overload = "space" ->
                                    specific_angular_momentum_space(
                                        [length |-> CartesianFrom(x),
                                         speed |-> CartesianFrom(v)])
                               [] overload = "psp" ->
                                    specific_angular_momentum_psp(
                                        [q |-> x, p |-> v, t |-> None])]
    /\ pc' = "returned"
    /\ UNCHANGED <<integrator, evaluated>>

\* Lagrange points.  The vectors are (3,) arrays of numbers in the units of
\* the potential's unit system; a potential is the record of what it
\* supplies here: constants["G"] and the second radial derivative at x, t.
SumSquares(a) == a[1] * a[1] + a[2] * a[2] + a[3] * a[3]

\* the inputs on which the square and cube roots and the quotients taken
\* below are whole numbers
IsSquare(n) == \E k \in 0..n : k * k = n

IsCube(n) == \E k \in (0 - 8)..8 : k * k * k = n

Abs(n) == IF n < 0 THEN 0 - n ELSE n

Divides(d, n) == \E k \in (0 - Abs(n))..Abs(n) : k * d = n

\* n / d for d a divisor of n
Quotient(n, d) == CHOOSE k \in (0 - Abs(n))..Abs(n) : k * d = n

\* jnp.linalg.vector_norm(a, axis=-1)
vector_norm(a) == CHOOSE k \in 0..SumSquares(a) : k * k = SumSquares(a)

\* jnp.cbrt(n)
cbrt(n) == CHOOSE k \in (0 - 8)..8 : k * k * k = n

Cross3(x, v) == Cross(Quantity(Arr(<<3>>, x), "x"), Quantity(Arr(<<3>>, v), "v")).value.data

\* _orbital_angular_frequency(x, v)
orbital_angular_frequency(x, v) ==
    LET r     == vector_norm(x)
        omega == [i \in 1..3 |-> Quotient(Cross3(x, v)[i], r * r)]
    IN  vector_norm(omega)

\* d2potential_dr2(potential, x, t)
d2potential_dr2(potential, x, t) == potential.d2phi_dr2

\* tidal_radius(potential, x, v, prog_mass, t)
tidal_radius(potential, x, v, prog_mass, t) ==
    LET omega     == orbital_angular_frequency(x, v)
        d2phi_dr2 == d2potential_dr2(potential, x, t)
    IN  cbrt(Quotient(potential.G * prog_mass, omega * omega - d2phi_dr2))

\* cx.vecs.normalize_vector(x)
normalize_vector(x) == [i \in 1..3 |-> Quotient(x[i], vector_norm(x))]

\* lagrange_points(potential, x, v, prog_mass, t)
lagrange_points(potential, x, v, prog_mass, t) ==
    LET r_hat == normalize_vector(x)
        r_t   == tidal_radius(potential, x, v, prog_mass, t)
        L_1   == [i \in 1..3 |-> x[i] - r_hat[i] * r_t]
        L_2   == [i \in 1..3 |-> x[i] + r_hat[i] * r_t]
    IN  <<L_1, L_2>>

\* the satellites' positions and velocities: along the axes
AxisVectors(sizes) ==
    {[i \in 1..3 |-> IF i = k THEN c ELSE 0] : k \in 1..3, c \in sizes}

SatellitePositions == AxisVectors({8, 0 - 8, 4})

SatelliteVelocities == AxisVectors({0, 8, 0 - 8, 16, 4})

\* the host potentials: G and the second radial derivative at the satellite
HostPotentials == [G : {1}, d2phi_dr2 : (0 - 8)..12]

ProgMasses == {1, 8}

\* the roots and quotients of tidal_radius and its callees are whole
ExactInputs(potential, x, v, prog_mass) ==
    LET r  == vector_norm(x)
        c  == Cross3(x, v)
    IN  /\ \A i \in 1..3 : Divides(r * r, c[i])
        /\ LET om == [i \in 1..3 |-> Quotient(c[i], r * r)]
               d  == SumSquares(om) - potential.d2phi_dr2
           IN  /\ IsSquare(SumSquares(om))
               /\ d # 0
               /\ Divides(d, potential.G * prog_mass)
               /\ IsCube(Quotient(potential.G * prog_mass, d))

LagrangeCall ==
    /\ pc = "idle"
    /\ \E potential \in HostPotentials, x \in SatellitePositions,
          v \in SatelliteVelocities, prog_mass \in ProgMasses :
           /\ ExactInputs(potential, x, v, prog_mass)
           /\ call' = [kind |-> "lagrange_points", potential |-> potential, x |-> x,
                       v |-> v, prog_mass |-> prog_mass, t |-> 0]
           /\ result' = [status |-> "ok",
                         L |-> lagrange_points(potential, x, v, prog_mass, 0)]
    /\ pc' = "returned"
    /\ UNCHANGED <<integrator, evaluated>>

NextFuncs == AngularMomentumCall \/ LagrangeCall \/ Return

SpecFuncs == InitVectorized /\ [][NextFuncs]_vars

(***************************************************************************)
(* Properties.                                                             *)
(***************************************************************************)
\* the batch shape of an array whose last coreNdim axes are core axes
BatchOf(a, coreNdim) == Slice(a.shape, 0, Ndim(a) - coreNdim)

\* element i (from 1) of the leading axis
Row(a, i) ==
    LET sz == Prod(Tail(a.shape))
    IN  Arr(Tail(a.shape), SubSeq(a.data, (i - 1) * sz + 1, i * sz))

RawReturned == pc = "returned" /\ call.kind = "raw"

ScalarTimes == Ndim(call.t0.value) = 0 /\ Ndim(call.t1.value) = 0

\* NumPy broadcasting of a tuple of shapes
PadLeft(sh, n) == [i \in 1..n |-> IF i <= n - Len(sh) THEN 1 ELSE sh[i - (n - Len(sh))]]

MaxRankOf(shapes) ==
    CHOOSE n \in {Len(shapes[k]) : k \in DOMAIN shapes} :
        \A k \in DOMAIN shapes : Len(shapes[k]) <= n

BroadcastCompatible(shapes) ==
    LET n == MaxRankOf(shapes)
    IN  \A i \in 1..n :
            Cardinality({PadLeft(shapes[k], n)[i] : k \in DOMAIN shapes} \ {1}) <= 1

BroadcastShape(shapes) ==
    LET n == MaxRankOf(shapes)
    IN  [i \in 1..n |->
            LET sizes == {PadLeft(shapes[k], n)[i] : k \in DOMAIN shapes}
            IN  CHOOSE m \in sizes : \A x \in sizes : x <= m]

\* C1: with scalar t0 and t1 and no saveat (interpolated left at its
\* default), a call with w0 of batch shape B returns a result of batch shape
\* B: t of shape B, q and p of shape (*B, 3).
C1_BatchShapeKept ==
    (RawReturned /\ ScalarTimes /\ call.saveat = None /\ ~call.interpolated)
        => LET B == BatchOf(call.w0, 1)
           IN  /\ result.status = "ok"
               /\ result.t.value.shape = B
               /\ result.q.value.shape = B \o <<3>>
               /\ result.p.value.shape = B \o <<3>>

\* C2: for w0 of batch shape (N,) with shared scalar t0, t1 and a shared
\* saveat, element i of the result is the result of integrating w0[i] alone
\* with the same arguments, and the solver ran once per batch element.
C2_ElementwiseSolve ==
    (RawReturned /\ ScalarTimes /\ Ndim(call.w0) = 2)
        => \A i \in 1..call.w0.shape[1] :
               LET alone == IntegratorCall(integrator, call.F, Row(call.w0, i), call.t0,
                                           call.t1, call.saveat, call.units,
                                           call.interpolated)
               IN  /\ alone.status = result.status
                   /\ result.status = "ok" =>
                         /\ Row(result.t.value, i) = alone.t.value
                         /\ Row(result.q.value, i) = alone.q.value
                         /\ Row(result.p.value, i) = alone.p.value
                         /\ result.t.unit = alone.t.unit
                         /\ result.ncalls = call.w0.shape[1]
                         /\ alone.ncalls = 1

C2_Witness ==
    /\ RawReturned /\ ScalarTimes /\ result.status = "ok"
    /\ call.w0.shape = <<MaxN, 6>>
    /\ call.saveat # None /\ call.saveat.value.shape = <<MaxT>>
    /\ call.F = "accel"
    /\ result.q.value.shape = <<MaxN, MaxT, 3>>
    /\ Row(result.q.value, 1) # Row(result.q.value, MaxN)

\* C3: with saveat a sequence of T times, the result's time axis is its
\* last batch axis and has length T, and along it t holds the requested
\* times, in the order given, expressed in units["time"]; for w0 of batch
\* rank <= 1 and scalar t0, t1 the shape of t is (*batch, T).
C3_SaveTimes ==
    (RawReturned /\ call.saveat # None)
        => LET T     == call.saveat.value.shape[1]
               B     == BatchOf(call.w0, 1)
               shape == result.t.value.shape
           IN  /\ (~call.interpolated /\ ScalarTimes /\ Len(B) <= 1)
                     => (result.status = "ok" /\ shape = B \o <<T>>)
               /\ result.status = "ok" =>
                     /\ Len(shape) >= 1
                     /\ shape[Len(shape)] = T
                     /\ result.q.value.shape = shape \o <<3>>
                     /\ result.p.value.shape = shape \o <<3>>
                     /\ result.t.unit = call.units.time
                     /\ \A r \in 1..Prod(Slice(shape, 0, Len(shape) - 1)), k \in 1..T :
                            result.t.value.data[(r - 1) * T + k]
                                = TimeValue(MaxT - T + k, call.units.time, call.units)

C3_Witness ==
    /\ RawReturned /\ result.status = "ok"
    /\ call.units = galactic /\ call.saveat # None /\ call.saveat.unit = "Gyr"
    /\ call.w0.shape = <<MaxN, 6>>
    /\ result.t.value.shape = <<MaxN, MaxT>>
    /\ result.t.value.data[MaxT] = 1000 * MaxT
    /\ result.t.value.data[1] < result.t.value.data[MaxT]

C5_CompositeDecomposes ==
    (pc = "returned" /\ call.kind = "composite" /\ result.status = "ok")
        => /\ Len(result.items) = Len(call.w0)
           /\ \A i \in 1..Len(call.w0) :
                  /\ result.items[i].key = call.w0[i].key
                  /\ result.items[i].value
                         = IntegratorCallPSP(integrator, call.F, call.w0[i].value, call.t0,
                                             call.t1, call.saveat, call.units,
                                             call.interpolated)

C5_Witness ==
    /\ pc = "returned" /\ call.kind = "composite" /\ result.status = "ok"
    /\ call.interpolated /\ call.saveat # None
    /\ call.w0[1].key = "w02" /\ result.items[1].key = "w02"
    /\ result.items[2].key = "w01"
    /\ result.items[1].value.q.value.shape = <<MaxT, 3>>
    /\ result.items[2].value.q.value.shape = <<MaxN, MaxT, 3>>
    /\ result.items[2].value.interpolant.present

\* C6: evaluating the Interpolant of an integration of w0 with batch shape
\* B at a query time of shape S gives q and p of shape (*B, *S, 3).
C6_InterpolantShape ==
    (pc = "evaluated" /\ call.kind = "raw")
        => LET B == BatchOf(call.w0, 1)
               S == evaluated.t_in.value.shape
           IN  /\ evaluated.q.value.shape = B \o S \o <<3>>
               /\ evaluated.p.value.shape = B \o S \o <<3>>

\* C7: when interpolated=True the solver is given no "max_steps" keyword,
\* whatever value the integrator's diffeq_kw holds for it.
C7_MaxStepsRemoved ==
    (RawReturned /\ call.interpolated /\ result.ncalls > 0)
        => "max_steps" \notin DOMAIN result.diffeq_kw

\* C8: when the batch shapes of (w0, t0, t1, ts) are broadcast-compatible,
\* the vectorized function succeeds and its output has the broadcast of the
\* four batch shapes as its batch shape.
C8_BroadcastBatchShape ==
    (pc = "returned" /\ call.kind = "vectorized")
        => LET shapes == <<BatchOf(call.w0, 1), BatchOf(call.t0, 0), BatchOf(call.t1, 0),
                           BatchOf(call.ts, 1)>>
           IN  BroadcastCompatible(shapes)
                   => /\ result.status = "ok"
                      /\ BatchOf(result.ts, 1) = BroadcastShape(shapes)
                      /\ BatchOf(result.ys, 2) = BroadcastShape(shapes)

\* C9: no call changes the integrator: its Solver, stepsize_controller,
\* diffeq_kw (max_steps included) and solver_kw are the same after every
\* call, interpolated or not.
C9_IntegratorUnchanged == [][integrator' = integrator]_vars

C9_Witness ==
    /\ RawReturned /\ call.interpolated /\ result.status = "ok"
    /\ "max_steps" \notin DOMAIN result.diffeq_kw
    /\ "max_steps" \in DOMAIN integrator.diffeq_kw
    /\ result.self = integrator

\* the batch shapes of the arguments of the raw call at hand: w0, t0, t1 and,
\* when given, saveat
CallBatchShapes ==
    <<BatchOf(call.w0, 1), call.t0.value.shape, call.t1.value.shape>>
        \o (IF call.saveat = None THEN <<>> ELSE <<BatchOf(call.saveat.value, 1)>>)

\* C10: if integrating some entry of a composite fails, the composite call
\* fails with the error of the first such entry and returns no entries, not
\* even those integrated before it.
C10_CompositeAborts ==
    (pc = "returned" /\ call.kind = "composite")
        => LET alone(i) == IntegratorCallPSP(integrator, call.F, call.w0[i].value, call.t0,
                                             call.t1, call.saveat, call.units,
                                             call.interpolated)
               failing  == {i \in 1..Len(call.w0) : alone(i).status # "ok"}
           IN  failing # {} =>
                   /\ result.status
                          = alone(CHOOSE i \in failing : \A j \in failing : i <= j).status
                   /\ result.items = <<>>

C10_Witness ==
    /\ pc = "returned" /\ call.kind = "composite"
    /\ result.status = "ValueError" /\ result.items = <<>>
    /\ IntegratorCallPSP(integrator, call.F, call.w0[1].value, call.t0, call.t1,
                         call.saveat, call.units, call.interpolated).status = "ok"
    /\ Ndim(call.w0[2].value.q.value) = 3

\* C11: when the batch shapes of w0, t0, t1 and saveat cannot be broadcast
\* against each other, the call raises, returns no result and the solver has
\* not run for any batch element.
C11_IncompatibleShapesRaise ==
    (RawReturned /\ ~BroadcastCompatible(CallBatchShapes))
        => /\ result.status # "ok"
           /\ result.cls = "None"
           /\ result.t = None /\ result.q = None /\ result.p = None
           /\ result.ncalls = 0

C11_Witness ==
    /\ RawReturned
    /\ call.w0.shape = <<MaxN - 1, 6>>
    /\ call.t0.value.shape = <<MaxN>>
    /\ call.saveat # None
    /\ ZipStrictOk(RevFilledShapes(<<call.w0, call.t0.value, call.t1.value,
                                     AtLeast2d(call.saveat.value)>>))
    /\ result.status = "ValueError"
    /\ result.ncalls = 0

\* the raw w0 of the call at hand
CallRawW0 == IF call.kind = "psp" THEN PSP_w(call.w0, call.units) ELSE call.w0

\* C12: a call on a raw or a structured w0 that returns gives a plain
\* PhaseSpacePosition without interpolant when interpolated is False, and an
\* InterpolatedPhaseSpacePosition whose one Interpolant holds the dense
\* output of the solve (per batch element its start time and start state)
\* and the call's unit system when interpolated is True; t, q, p are there
\* in both cases.  Calls with scalar times and batch rank <= 1 do return.
C12_ReturnClass ==
    (pc = "returned" /\ call.kind \in {"raw", "psp"})
        => LET w0 == CallRawW0
               B  == BatchOf(w0, 1)
           IN  /\ (ScalarTimes /\ Len(B) <= 1
                      /\ (~call.interpolated \/ "max_steps" \in DOMAIN integrator.diffeq_kw))
                     => result.status = "ok"
               /\ result.status = "ok" =>
                     /\ result.t # None /\ result.q # None /\ result.p # None
                     /\ result.t.unit # "None"
                     /\ ~call.interpolated =>
                           /\ result.cls = "PhaseSpacePosition"
                           /\ result.interpolant = NoInterpolant
                     /\ call.interpolated =>
                           /\ result.cls = "InterpolatedPhaseSpacePosition"
                           /\ result.interpolant.present
                           /\ result.interpolant.units = call.units
                           /\ result.interpolant.F = call.F
                           /\ ScalarTimes =>
                                 result.interpolant.interpolant.data
                                     = Flatten([r \in 1..Prod(B) |->
                                           <<QuantityConstructor(call.t0, call.units.time)
                                                 .value.data[1]>>
                                               \o SubSeq(w0.data, 6 * r - 5, 6 * r)])

C12_Witness ==
    /\ pc = "returned" /\ call.kind = "psp" /\ call.interpolated
    /\ call.units = gyrsystem
    /\ BatchOf(call.w0.q.value, 1) = <<MaxN>>
    /\ result.status = "ok"
    /\ result.cls = "InterpolatedPhaseSpacePosition"
    /\ result.interpolant.present
    /\ result.interpolant.units = gyrsystem
    /\ result.interpolant.interpolant.shape = <<MaxN, 7>>

\* the times a caller can pass (t0, t1, saveat), as numbers in unit u
InputTimes(u, units) == {TimeValue(k, u, units) : k \in (0 - MaxN)..(MaxT + MaxN)}

\* C13: the result carries t in units["time"], q in units["length"] and p
\* in units["speed"] of the unit system passed, whatever time unit t0, t1
\* and saveat came in: every time in t is an input time expressed in
\* units["time"], and the states are those of a solve that starts at t0 and
\* saves at saveat, both expressed in units["time"].
C13_ResultUnits ==
    (RawReturned /\ result.status = "ok")
        => LET time == call.units.time
               t    == result.t.value
           IN  /\ result.t.unit = time
               /\ result.q.unit = call.units.length
               /\ result.p.unit = call.units.speed
               /\ (call.saveat # None \/ Ndim(call.t1.value) = 0)
                     => \A j \in 1..Len(t.data) :
                            t.data[j] \in InputTimes(time, call.units)
               /\ (/\ call.saveat # None
                   /\ Ndim(call.w0) = 2
                   /\ call.t0.value.shape \in {<<>>, <<call.w0.shape[1]>>}
                   /\ Ndim(call.t1.value) = 0)
                     => LET N == call.w0.shape[1]
                            T == call.saveat.value.shape[1]
                        IN  \A i \in 1..N, k \in 1..T :
                                LET t0v == TimeValue(IF Ndim(call.t0.value) = 0 THEN 0
                                                     ELSE 1 - i, time, call.units)
                                    tk  == TimeValue(MaxT - T + k, time, call.units)
                                    y   == Flow(call.F, Row(call.w0, i).data, t0v, tk)
                                    r   == (i - 1) * T + k
                                IN  /\ t.data[r] = tk
                                    /\ SubSeq(result.q.value.data, 3 * r - 2, 3 * r)
                                           = SubSeq(y, 1, 3)
                                    /\ SubSeq(result.p.value.data, 3 * r - 2, 3 * r)
                                           = SubSeq(y, 4, 6)

C13_Witness ==
    /\ RawReturned /\ result.status = "ok"
    /\ call.units = galactic
    /\ call.t0.unit = "Gyr" /\ call.t0.value.shape = <<MaxN>>
    /\ call.t0.value.data[MaxN] = 1 - MaxN
    /\ call.saveat # None /\ call.saveat.unit = "Gyr"
    /\ call.saveat.value.data = <<MaxT>>
    /\ call.w0.shape = <<MaxN, 6>>
    /\ call.F = "accel"
    /\ result.t.unit = "Myr"
    /\ result.t.value = Arr(<<MaxN, 1>>, [i \in 1..MaxN |-> 1000 * MaxT])
    /\ result.q.unit = "kpc" /\ result.p.unit = "kpc/Myr"

QueryIsT1 ==
    AtLeast1d(Ustrip(call.units.time, evaluated.t_in)).data
        = QuantityConstructor(call.t1, call.units.time).value.data

\* the same solve with interpolated=False and saveat=[t1]
SampledAtT1 ==
    IntegratorCall(integrator, call.F, call.w0, call.t0, call.t1,
                   Quantity(AsArray1(call.t1.value), call.t1.unit), call.units, FALSE)

\* C15: evaluating the Interpolant of a solve over [t0, t1] at t1 gives,
\* for every batch element, the q and p that the same solve with
\* interpolated=False and saveat=[t1] samples last.
C15_InterpolantAtT1 ==
    (pc = "evaluated" /\ call.kind = "raw" /\ QueryIsT1)
        => /\ SampledAtT1.status = "ok"
           /\ evaluated.q.value.data = SampledAtT1.q.value.data
           /\ evaluated.p.value.data = SampledAtT1.p.value.data
           /\ evaluated.q.unit = SampledAtT1.q.unit
           /\ evaluated.p.unit = SampledAtT1.p.unit

\* the Interpolant as the call at hand returned it
ReturnedInterpolant ==
    IntegratorCall(integrator, call.F, call.w0, call.t0, call.t1, call.saveat,
                   call.units, call.interpolated).interpolant

\* C16: evaluations leave the Interpolant as it was returned (interpolant
\* data, units, added_ndim), however many came before and at whatever
\* times, so that the result at a time t is always that of the first
\* evaluation at t, the evaluation of the Interpolant as returned.
C16_InterpolantImmutable ==
    pc = "evaluated"
        => /\ result.interpolant = ReturnedInterpolant
           /\ evaluated.self = ReturnedInterpolant
           /\ evaluated.q = InterpolantCall(ReturnedInterpolant, evaluated.t_in).q
           /\ evaluated.p = InterpolantCall(ReturnedInterpolant, evaluated.t_in).p
           /\ evaluated.t = InterpolantCall(ReturnedInterpolant, evaluated.t_in).t

C16_Witness ==
    /\ pc = "evaluated"
    /\ result.interpolant.present
    /\ result.interpolant.added_ndim = 1
    /\ result.interpolant.interpolant.shape = <<1, 7>>
    /\ evaluated.self = result.interpolant
    /\ evaluated.t_in.value.shape = <<MaxT>>
    /\ evaluated.q.value.shape = <<MaxT, 3>>

\* C17: specific_angular_momentum gives, for every batch element, the
\* cross product (x2 v3 - x3 v2, x3 v1 - x1 v3, x1 v2 - x2 v1) of the
\* element's position and velocity, (0, 0, 64) for x = (8, 0, 0) and
\* v = (0, 8, 0), and the same through the overloads for vector objects, a
\* Space and a phase-space position as through the (x, v) form.
C17_CrossProduct ==
    (pc = "returned" /\ call.kind = "specific_angular_momentum")
        => LET B == BatchOf(call.x.value, 1)
           IN  /\ result.L.value.shape = B \o <<3>>
               /\ \A r \in 1..Prod(B) :
                      LET x == SubSeq(call.x.value.data, 3 * r - 2, 3 * r)
                          v == SubSeq(call.v.value.data, 3 * r - 2, 3 * r)
                          L == SubSeq(result.L.value.data, 3 * r - 2, 3 * r)
                      IN  /\ L = <<x[2] * v[3] - x[3] * v[2],
                                   x[3] * v[1] - x[1] * v[3],
                                   x[1] * v[2] - x[2] * v[1]>>
                          /\ (x = <<8, 0, 0>> /\ v = <<0, 8, 0>>) => L = <<0, 0, 64>>
               /\ result.L = specific_angular_momentum(call.x, call.v)

C17_Witness ==
    /\ pc = "returned" /\ call.kind = "specific_angular_momentum"
    /\ call.overload = "space"
    /\ call.x.value.shape = <<MaxN, 3>>
    /\ SubSeq(call.x.value.data, 1, 3) = <<8, 0, 0>>
    /\ SubSeq(call.v.value.data, 1, 3) = <<0, 8, 0>>
    /\ SubSeq(result.L.value.data, 1, 3) = <<0, 0, 64>>
    /\ SubSeq(result.L.value.data, 4, 6) # <<0, 0, 64>>

\* C18: lagrange_points returns L_1 = x - r_hat r_t and L_2 = x + r_hat r_t
\* for r_t the tidal radius: both lie on the line through the host centre
\* and x, L_1 + L_2 = 2 x, and L_1 is closer to the host centre than L_2.
C18_LagrangePoints ==
    (pc = "returned" /\ call.kind = "lagrange_points")
        => LET x     == call.x
               r_t   == tidal_radius(call.potential, x, call.v, call.prog_mass, call.t)
               r_hat == normalize_vector(x)
               L_1   == result.L[1]
               L_2   == result.L[2]
           IN  /\ L_1 = [i \in 1..3 |-> x[i] - r_hat[i] * r_t]
               /\ L_2 = [i \in 1..3 |-> x[i] + r_hat[i] * r_t]
               /\ \A i \in 1..3 : L_1[i] + L_2[i] = 2 * x[i]
               /\ Cross3(L_1, x) = <<0, 0, 0>>
               /\ Cross3(L_2, x) = <<0, 0, 0>>
               /\ SumSquares(L_1) < SumSquares(L_2)

\* the arguments of the direct call at hand and their batch shapes, a batch
\* shape () taken as (1,)
VectorizedArgs == <<call.w0, call.t0, call.t1, call.ts>>

ArgBatchShapes ==
    LET sh == <<BatchOf(call.w0, 1), BatchOf(call.t0, 0), BatchOf(call.t1, 0),
                BatchOf(call.ts, 1)>>
    IN  [k \in 1..4 |-> IF sh[k] = <<>> THEN <<1>> ELSE sh[k]]

\* the batch axes on which some argument has a size > 1, and the j-th of them
NonTrivialAxes ==
    {a \in 1..Len(ArgBatchShapes[1]) : \E k \in 1..4 : ArgBatchShapes[k][a] > 1}

NthNonTrivialAxis(j) ==
    CHOOSE a \in NonTrivialAxes : Cardinality({b \in NonTrivialAxes : b < a}) = j - 1

\* the largest size on batch axis a
AxisSize(a) ==
    CHOOSE n \in {ArgBatchShapes[k][a] : k \in 1..4} :
        \A k \in 1..4 : ArgBatchShapes[k][a] <= n

\* C19: for arguments whose batch shapes have one rank, vectorize_diffeq
\* builds one vmap layer per batch axis on which some argument has a size > 1
\* and none for the other axes; the layers are nested in the order of the
\* axes, the first such axis outermost and the last innermost; in its layer
\* an argument is mapped (in_axes 0) exactly when its own size on that axis
\* is > 1 and shared (None) otherwise.  A call that returns has therefore
\* solved once per element of the non-trivial axes and has their sizes, in
\* order, as its batch shape.
C19_VmapLayers ==
    (/\ pc = "returned" /\ call.kind = "vectorized"
     /\ \A k \in 1..4 : Len(ArgBatchShapes[k]) = Len(ArgBatchShapes[1]))
        => LET layers == VmapLayers(RevFilledShapes(VectorizedArgs))
               n      == Cardinality(NonTrivialAxes)
               sizes  == [j \in 1..n |-> AxisSize(NthNonTrivialAxis(j))]
           IN  /\ Len(layers) = n
               /\ \A j \in 1..n : \A k \in 1..4 :
                      layers[j][k] = (ArgBatchShapes[k][NthNonTrivialAxis(j)] > 1)
               /\ result.status = "ok" =>
                      /\ result.ncalls = Prod(sizes)
                      /\ BatchOf(result.ys, 2) = sizes
                      /\ BatchOf(result.ts, 1) = sizes

C19_Witness ==
    /\ pc = "returned" /\ call.kind = "vectorized"
    /\ call.w0.shape = <<MaxN - 1, MaxN, 6>>
    /\ call.t0.shape = <<1, MaxN>>
    /\ call.t1.shape = <<1, MaxN>>
    /\ BatchOf(call.ts, 1) = <<1, 1>>
    /\ VmapLayers(RevFilledShapes(VectorizedArgs))
           = <<(<<TRUE, FALSE, FALSE, FALSE>>), (<<TRUE, TRUE, TRUE, FALSE>>)>>
    /\ result.status = "ok"
    /\ result.ncalls = (MaxN - 1) * MaxN
    /\ BatchOf(result.ys, 2) = <<MaxN - 1, MaxN>>

\* the raw 6-vectors of the structured w0 of the call at hand in the
\* call's unit system: per batch element q in units["length"], then p in
\* units["speed"]
RawInUnits ==
    LET q == call.w0.q
        p == call.w0.p
        B == BatchOf(q.value, 1)
    IN  Arr(B \o <<6>>,
            Flatten([r \in 1..Prod(B) |->
                [j \in 1..3 |-> (q.value.data[3 * (r - 1) + j] * Factor(q.unit))
                                    \div Factor(call.units.length)]
                \o [j \in 1..3 |-> (p.value.data[3 * (r - 1) + j] * Factor(p.unit))
                                       \div Factor(call.units.speed)]]))

\* C20: integrating a structured w0 returns (or raises) what integrating
\* the raw 6-vector of w0 in `units` returns (or raises) with the same F,
\* t0, t1, saveat, units and interpolated, whether or not w0 carries a t.
C20_StructuredAsRaw ==
    (pc = "returned" /\ call.kind = "psp")
        => result = IntegratorCall(integrator, call.F, RawInUnits, call.t0, call.t1,
                                   call.saveat, call.units, call.interpolated)

C20_Witness ==
    /\ pc = "returned" /\ call.kind = "psp"
    /\ call.w0.t # None /\ call.w0.t # call.t0
    /\ call.w0.q.unit = "pc" /\ call.units = galactic
    /\ BatchOf(call.w0.q.value, 1) = <<MaxN>>
    /\ call.saveat # None /\ call.interpolated
    /\ result.status = "ok"
    /\ result.q.value.shape = <<MaxN, MaxT, 3>>
    /\ result.interpolant.interpolant.data[1] = 0

\* the raw output of the vectorized solve of the raw call at hand
CallSolution ==
    wrapped(call.F, call.interpolated,
            <<call.w0,
              QuantityConstructor(call.t0, call.units.time).value,
              QuantityConstructor(call.t1, call.units.time).value,
              AtLeast2d(SaveTimes(QuantityConstructor(call.t1, call.units.time),
                                  call.saveat, call.units.time).value)>>)

\* a call with w0 of shape (6,) and scalar t0 and t1 that returned
ScalarCallReturned ==
    RawReturned /\ ScalarTimes /\ Ndim(call.w0) = 1 /\ result.status = "ok"

\* the number of save times of the call at hand
NumSaveTimes == IF call.saveat = None THEN 1 ELSE call.saveat.value.shape[1]

\* C21 (as claimed): for a fully scalar call the raw output of the
\* vectorized solve carries a synthetic leading batch axis of size 1, which
\* the Integrator drops.
C21_SyntheticAxis ==
    ScalarCallReturned
        => /\ BatchOf(CallSolution.ts, 1) = <<1>>
           /\ BatchOf(CallSolution.ys, 2) = <<1>>
           /\ result.t.value.shape = Tail(BatchOf(CallSolution.ts, 1))
                                         \o (IF call.saveat = None THEN <<>>
                                             ELSE <<NumSaveTimes>>)

\* C21 (amended): for a fully scalar call no vmap layer is applied and the
\* raw output of the vectorized solve has no batch axis (ts of shape (T,), ys
\* of shape (T, 6), one solver run); the Integrator neither adds nor drops
\* a batch axis, and the result has batch shape ().
C21_NoSyntheticAxis ==
    (RawReturned /\ ScalarTimes /\ Ndim(call.w0) = 1)
        => /\ ~call.interpolated => result.status = "ok"
           /\ result.status = "ok" =>
                 /\ CallSolution.ts.shape = <<NumSaveTimes>>
                 /\ CallSolution.ys.shape = <<NumSaveTimes, 6>>
                 /\ CallSolution.ncalls = 1
                 /\ result.t.value.shape
                        = IF call.saveat = None THEN <<>> ELSE <<NumSaveTimes>>
                 /\ result.q.value.shape = result.t.value.shape \o <<3>>
                 /\ result.p.value.shape = result.t.value.shape \o <<3>>

C21_Witness ==
    /\ ScalarCallReturned
    /\ call.saveat # None /\ NumSaveTimes = MaxT
    /\ CallSolution.ys.shape = <<MaxT, 6>>
    /\ result.q.value.shape = <<MaxT, 3>>
    /\ result.ncalls = 1

\* the query times of the evaluation at hand, in units["time"]
QueryTimes == AtLeast1d(Ustrip(call.units.time, evaluated.t_in)).data

\* C22: Interpolant.__call__ removes only axes of size 1 from the evaluated
\* array: for an interpolant built from N > 1 initial conditions the result
\* holds, for every batch element i and every query time, the state of
\* element i at that time.
C22_AllBatchElements ==
    (pc = "evaluated" /\ call.kind = "raw" /\ Ndim(call.w0) = 2 /\ call.w0.shape[1] > 1)
        => LET N   == call.w0.shape[1]
               K   == Len(QueryTimes)
               t0v == QuantityConstructor(call.t0, call.units.time).value.data[1]
           IN  /\ Len(evaluated.q.value.data) = N * K * 3
               /\ Len(evaluated.p.value.data) = N * K * 3
               /\ \A i \in 1..N, k \in 1..K :
                      LET y == Flow(call.F, Row(call.w0, i).data, t0v, QueryTimes[k])
                          r == (i - 1) * K + k
                      IN  /\ SubSeq(evaluated.q.value.data, 3 * r - 2, 3 * r)
                                 = SubSeq(y, 1, 3)
                          /\ SubSeq(evaluated.p.value.data, 3 * r - 2, 3 * r)
                                 = SubSeq(y, 4, 6)

\* the batch shapes of w0, t0 and t1 of the raw call at hand
StateTimeBatchShapes == <<BatchOf(call.w0, 1), call.t0.value.shape, call.t1.value.shape>>

\* the batch shape of the result at hand: the shape of t without the time
\* axis that a saveat brings
ResultBatchShape ==
    IF call.saveat = None THEN result.t.value.shape
    ELSE Slice(result.t.value.shape, 0, Ndim(result.t.value) - 1)

\* C23: when t0 or t1 is batched and the batch shapes of w0, t0 and t1 (each
\* of rank <= 1) broadcast, the call returns and the batch shape of its
\* result is the NumPy broadcast of the three.
C23_BroadcastTimes ==
    (/\ RawReturned /\ ~ScalarTimes /\ ~call.interpolated
     /\ Len(BatchOf(call.w0, 1)) <= 1
     /\ BroadcastCompatible(StateTimeBatchShapes))
        => /\ result.status = "ok"
           /\ ResultBatchShape = BroadcastShape(StateTimeBatchShapes)
           /\ result.q.value.shape
                  = result.t.value.shape \o <<3>>

\* C24: with saveat omitted, w0 of batch shape (N,) and t1 of shape (N,),
\* batch element i is saved at its own t1[i] only: the time of element i of
\* the result is t1[i] in units["time"] and its state is the state at t1[i],
\* the end of the interval element i is integrated over.
C24_OwnFinalTime ==
    (/\ RawReturned /\ call.saveat = None
     /\ Ndim(call.w0) = 2
     /\ call.t1.value.shape = <<call.w0.shape[1]>>
     /\ call.t0.value.shape \in {<<>>, <<call.w0.shape[1]>>})
        => LET N    == call.w0.shape[1]
               time == call.units.time
               t0s  == QuantityConstructor(call.t0, time).value
               t1s  == QuantityConstructor(call.t1, time).value
           IN  /\ result.status = "ok"
               /\ result.t.unit = time
               /\ result.t.value.shape = <<N>>
               /\ \A i \in 1..N :
                      LET t0v == t0s.data[IF Ndim(t0s) = 0 THEN 1 ELSE i]
                          y   == Flow(call.F, Row(call.w0, i).data, t0v, t1s.data[i])
                      IN  /\ result.t.value.data[i] = t1s.data[i]
                          /\ SubSeq(result.q.value.data, 3 * i - 2, 3 * i) = SubSeq(y, 1, 3)
                          /\ SubSeq(result.p.value.data, 3 * i - 2, 3 * i) = SubSeq(y, 4, 6)

\* C25: a call with interpolated=True on an Integrator whose diffeq_kw has
\* no "max_steps" key (only "event", say) prepares the solver keyword
\* arguments without raising, and the solver is invoked.
C25_NoMaxStepsKey ==
    (/\ RawReturned /\ call.interpolated
     /\ "max_steps" \notin DOMAIN integrator.diffeq_kw
     /\ ScalarTimes /\ Ndim(call.w0) <= 2)
        => /\ result.status = "ok"
           /\ result.ncalls > 0

====
